---- MODULE Spec2Model ----
(***************************************************************************)
(* Model of the Harvest Tutor diagnosis page.                              *)
(*                                                                         *)
(*   frontend/src/app/diagnose/page.tsx   DiagnosePage: the React state,   *)
(*                                        handleImageSelect,               *)
(*                                        handleClearImage, handleAnalyze  *)
(*   components/ImageUpload (part_001)    ImageUpload: handleFile,         *)
(*                                        handleClear, the FileReader      *)
(*                                                                         *)
(* Every event handler runs to completion on the single UI thread, so one  *)
(* handler is one action.  handleAnalyze is an async function: it is cut   *)
(* at its three awaits, and each continuation is the action that receives  *)
(* the response of the awaited call.  A running handleAnalyze keeps the    *)
(* values it closed over (selectedImage, selectedCrop, selectedLanguage)   *)
(* and its locals.  Each running handleAnalyze is suspended at exactly one *)
(* await, with exactly one call outstanding; `cycles` is the bag of these  *)
(* suspended runs.  Each run also carries one history flag, quiet: no      *)
(* image was picked or cleared and no other run was started since the run  *)
(* began.                                                                  *)
(*                                                                         *)
(* The gateway functions predictDisease, getExplanation and generateVoice  *)
(* (@/lib/api) are the environment: the response to an outstanding call is *)
(* any value of the result shape the page reads.                           *)
(*                                                                         *)
(* An absent (undefined) optional string is modelled by "", an absent      *)
(* number by Undefined; both are falsy in the source's tests.              *)
(***************************************************************************)
EXTENDS Integers, Sequences, FiniteSets, Bags

\* ------------------------------------------------------------------ bounds
\* handleAnalyze cycles started in one behaviour
MaxCycles == 2
\* FileReader loads that may be pending at once, while a diagnosis may run
MaxReaders == 1
\* FileReader loads that may be pending at once, in Media Intake alone
MaxIntakeReaders == 2

\* --------------------------------------------------------------- constants
\* part_001:51   10 * 1024 * 1024
MaxFileSize == 10485760

CROPS == {"Tomato", "Potato", "Apple"}
LANGUAGES == {"English", "Hindi", "Telugu", "Tamil", "Bengali", "Marathi"}

\* the crops and languages the modelled user clicks on
CropInputs == {"Tomato", "Potato"}
LanguageInputs == {"English", "Hindi"}

AnalysisStates ==
    {"idle", "predicting", "explaining", "generating-voice", "complete", "error"}

FallbackExplanation ==
    "Expert explanation currently unavailable. Please check the disease name and consult a local agronomist."
DefaultPredictError == "Failed to predict disease"
NoImageError == "Please upload an image first"

\* useState<File | null>(null), useState<string | null>(null)
NoFile == [name |-> "", type |-> "", size |-> 0]
NoPreview == ""
\* an absent optional number of a gateway result
Undefined == -1

\* ------------------------------------------------------------------- files
\* The characters of the strings startsWith is applied to.
Chars(str) ==
    CASE str = "image/" -> <<"i", "m", "a", "g", "e", "/">>
      [] str = "image/jpeg" -> <<"i", "m", "a", "g", "e", "/", "j", "p", "e", "g">>
      [] str = "image/png" -> <<"i", "m", "a", "g", "e", "/", "p", "n", "g">>
      [] str = "image" -> <<"i", "m", "a", "g", "e">>
      [] str = "text/plain" -> <<"t", "e", "x", "t", "/", "p", "l", "a", "i", "n">>
      [] str = "x-image/png" -> <<"x", "-", "i", "m", "a", "g", "e", "/", "p", "n", "g">>
      [] str = "Image/png" -> <<"I", "m", "a", "g", "e", "/", "p", "n", "g">>
      [] str = "" -> << >>

File(name, type, size) == [name |-> name, type |-> type, size |-> size]

\* the files the user drops in the page's own behaviours
Files ==
    { File("edge.png", "image/png", MaxFileSize),
      File("over.png", "image/png", MaxFileSize + 1) }

\* the files Media Intake is tried on
IntakeFiles ==
    Files \cup
    { File("healthy_leaf.jpg", "image/jpeg", 3145728),
      File("notes.txt", "text/plain", 120),
      File("huge.png", "image/png", 2 * MaxFileSize),
      File("big.txt", "text/plain", MaxFileSize + 1),
      File("bare", "image", 120),
      File("inner", "x-image/png", 120),
      File("upper.PNG", "Image/png", 120),
      File("empty.png", "image/png", 0),
      File("unknown", "", 120) }

\* String.prototype.startsWith
StartsWith(str, prefix) ==
    /\ Len(Chars(str)) >= Len(Chars(prefix))
    /\ SubSeq(Chars(str), 1, Len(Chars(prefix))) = Chars(prefix)

\* reader.result of readAsDataURL(file): a data URI of that file's content
DataUrl(file) == "data:" \o file.name

\* -------------------------------------------------------- gateway results
PredictResult(success, dis, conf, err) ==
    [success |-> success, disease |-> dis, confidence |-> conf, error |-> err]

PredictResults ==
    { PredictResult(FALSE, "", Undefined, "model unavailable"),
      PredictResult(FALSE, "", Undefined, ""),
      PredictResult(FALSE, "Early Blight", 87, ""),
      PredictResult(TRUE, "", 87, "model unavailable"),
      PredictResult(TRUE, "Early Blight", 87, "") }

ExplainResult(success, text, err) ==
    [success |-> success, explanation |-> text, error |-> err]

ExplainResults ==
    { ExplainResult(TRUE, "Early blight is caused by...", ""),
      ExplainResult(TRUE, "", ""),
      ExplainResult(FALSE, "", "quota exceeded"),
      ExplainResult(FALSE, "Early blight is caused by...", "") }

VoiceResult(success, audio, err) ==
    [success |-> success, audioBase64 |-> audio, error |-> err]

VoiceResults ==
    { VoiceResult(TRUE, "<b64>", ""),
      VoiceResult(TRUE, "", ""),
      VoiceResult(FALSE, "", "tts down"),
      VoiceResult(FALSE, "<b64>", "") }

\* a value raised by an awaited call: an Error with its message, or
\* something that is not an Error
Thrown(isError, message) == [isError |-> isError, message |-> message]

Faults ==
    { Thrown(TRUE, "Network Error"),
      Thrown(FALSE, "") }

\* ------------------------------------------------------------------- state
VARIABLES
    \* DiagnosePage's useState cells
    selectedCrop, selectedLanguage, selectedImage, analysisState,
    disease, confidence, explanation, audioBase64, error,
    \* ImageUpload's preview cell, and the bag of files a FileReader is loading
    preview, readers,
    \* the bag of suspended handleAnalyze runs, and how many were started
    cycles, started,
    \* history: the file and the alert of handleFile while it is the handler
    \* that ran last, NoIntake after any other handler
    intake,
    \* history: what the speech-fallback button handed to speechSynthesis
    \* while it is the handler that ran last, NoUtterance after any other
    utterance

pageVars ==
    <<selectedCrop, selectedLanguage, selectedImage, analysisState,
      disease, confidence, explanation, audioBase64, error>>
resultVars == <<analysisState, disease, confidence, explanation, audioBase64, error>>
uploadVars == <<preview, readers>>
cycleVars == <<cycles, started>>
vars == <<pageVars, uploadVars, cycleVars, intake, utterance>>

Intake(file, alert) == [file |-> file, alert |-> alert]
NoIntake == Intake(NoFile, "")

\* a SpeechSynthesisUtterance: its text and its lang
Utterance(text, lang) == [text |-> text, lang |-> lang]
NoUtterance == Utterance("", "")

Init ==
    /\ selectedCrop = "Tomato"
    /\ selectedLanguage = "English"
    /\ selectedImage = NoFile
    /\ analysisState = "idle"
    /\ disease = ""
    /\ confidence = 0
    /\ explanation = ""
    /\ audioBase64 = ""
    /\ error = ""
    /\ preview = NoPreview
    /\ readers = EmptyBag
    /\ cycles = EmptyBag
    /\ started = 0
    /\ intake = NoIntake
    /\ utterance = NoUtterance

\* history: the user picked or cleared the image, or started another run,
\* while the runs of the bag were in flight
Disturb(c) == [c EXCEPT !.quiet = FALSE]
Copies(c, bag) == IF c \in DOMAIN bag THEN bag[c] ELSE 0
Disturbed(bag) ==
    [d \in {Disturb(c) : c \in DOMAIN bag} |->
        Copies(d, bag) + Copies([d EXCEPT !.quiet = TRUE], bag)]

\* ------------------------------------------------------------ ImageUpload
\* mutant: the size test written >= (a file of exactly 10 MiB is refused)
Validate_SizeInclusive(file) ==
    IF ~StartsWith(file.type, "image/")
    THEN "Please upload an image file"
    ELSE IF file.size >= MaxFileSize
         THEN "File size must be less than 10MB"
         ELSE ""

\* handleFile's two validations: the alert raised, "" when the file passes
Validate(file) ==
    IF ~StartsWith(file.type, "image/")
    THEN "Please upload an image file"
    ELSE IF file.size > MaxFileSize
         THEN "File size must be less than 10MB"
         ELSE ""

\* mutant: the error message of an earlier analysis survives
SelectImage_KeepsError(file) ==
    /\ selectedImage' = file
    /\ analysisState' = "idle"
    /\ disease' = ""
    /\ explanation' = ""
    /\ audioBase64' = ""
    /\ error' = error
    /\ UNCHANGED <<selectedCrop, selectedLanguage, confidence>>

\* mutant: the audio of an earlier analysis survives
SelectImage_KeepsAudio(file) ==
    /\ selectedImage' = file
    /\ analysisState' = "idle"
    /\ disease' = ""
    /\ explanation' = ""
    /\ audioBase64' = audioBase64
    /\ error' = ""
    /\ UNCHANGED <<selectedCrop, selectedLanguage, confidence>>

\* the six setters handleImageSelect and handleClearImage share
SelectImage(file) ==
    /\ selectedImage' = file
    /\ analysisState' = "idle"
    /\ disease' = ""
    /\ explanation' = ""
    /\ audioBase64' = ""
    /\ error' = ""
    /\ UNCHANGED <<selectedCrop, selectedLanguage, confidence>>

handleImageSelect(file) == SelectImage(file)

handleClearImage == SelectImage(NoFile)

\* mutant: a refused file also drops the image selected before
handleFile_RejectClears(file) ==
    /\ preview = NoPreview
    /\ intake' = Intake(file, Validate(file))
    /\ utterance' = NoUtterance
    /\ IF Validate(file) # ""
       THEN /\ handleClearImage
            /\ cycles' = Disturbed(cycles)
            /\ UNCHANGED <<uploadVars, started>>
       ELSE /\ readers' = readers (+) SetToBag({file})
            /\ handleImageSelect(file)
            /\ cycles' = Disturbed(cycles)
            /\ UNCHANGED <<preview, started>>

\* The drop zone and its file input are rendered only while there is no
\* preview.  A file that passes starts a FileReader and is forwarded; the
\* drop zone stays until that reader completes, so further files can follow.
handleFile(file) ==
    /\ preview = NoPreview
    /\ intake' = Intake(file, Validate(file))
    /\ utterance' = NoUtterance
    /\ IF Validate(file) # ""
       THEN UNCHANGED <<pageVars, uploadVars, cycleVars>>
       ELSE /\ readers' = readers (+) SetToBag({file})
            /\ handleImageSelect(file)
            /\ cycles' = Disturbed(cycles)
            /\ UNCHANGED <<preview, started>>

\* reader.onloadend of one pending FileReader
onloadend(file) ==
    /\ BagIn(file, readers)
    /\ readers' = readers (-) SetToBag({file})
    /\ preview' = DataUrl(file)
    /\ intake' = NoIntake
    /\ utterance' = NoUtterance
    /\ UNCHANGED <<pageVars, cycleVars>>

\* The remove button is rendered only while there is a preview.
handleClear ==
    /\ preview # NoPreview
    /\ preview' = NoPreview
    /\ handleClearImage
    /\ cycles' = Disturbed(cycles)
    /\ intake' = NoIntake
    /\ utterance' = NoUtterance
    /\ UNCHANGED <<readers, started>>

\* ----------------------------------------------------------- DiagnosePage
\* onClick of a crop button; a click on the selected crop sets the same value
setSelectedCrop(crop) ==
    /\ crop # selectedCrop
    /\ selectedCrop' = crop
    /\ intake' = NoIntake
    /\ utterance' = NoUtterance
    /\ UNCHANGED <<selectedLanguage, selectedImage, resultVars, uploadVars, cycleVars>>

setSelectedLanguage(language) ==
    /\ language # selectedLanguage
    /\ selectedLanguage' = language
    /\ intake' = NoIntake
    /\ utterance' = NoUtterance
    /\ UNCHANGED <<selectedCrop, selectedImage, resultVars, uploadVars, cycleVars>>

isLoading == analysisState \in {"predicting", "explaining", "generating-voice"}

\* disabled={!selectedImage || isLoading}
AnalyzeDisabled == selectedImage = NoFile \/ isLoading

\* An outstanding gateway call and its arguments ("" or NoFile: not passed)
PredictCall(image, crop) ==
    [endpoint |-> "predictDisease", image |-> image, crop |-> crop,
     disease |-> "", language |-> "", text |-> ""]
ExplainCall(crop, dis, language) ==
    [endpoint |-> "getExplanation", image |-> NoFile, crop |-> crop,
     disease |-> dis, language |-> language, text |-> ""]
VoiceCall(text, language) ==
    [endpoint |-> "generateVoice", image |-> NoFile, crop |-> "",
     disease |-> "", language |-> language, text |-> text]

\* the local predictionResult before the first await has returned
NoPrediction == [disease |-> "", confidence |-> 0]

\* A handleAnalyze run suspended at an await: the outstanding call, the
\* closed-over values a later line still reads (selectedCrop up to line 78,
\* selectedLanguage up to line 92; "" once no line reads them any more), the
\* label and confidence of its local predictionResult, and the history flag.
Suspended(call, crop, language, predicted, quiet) ==
    [call |-> call, selectedCrop |-> crop, selectedLanguage |-> language,
     predicted |-> predicted, quiet |-> quiet]

Awaiting(endpoint) == {c \in BagToSet(cycles) : c.call.endpoint = endpoint}

\* mutant: the call is issued before the stage is shown
StartCycle_StageLate ==
    /\ analysisState' = analysisState
    /\ error' = ""
    /\ cycles' = Disturbed(cycles) (+) SetToBag(
           {Suspended(PredictCall(selectedImage, selectedCrop),
                      selectedCrop, selectedLanguage, NoPrediction, TRUE)})

\* lines 63-66: handleAnalyze from the image test to its first await
StartCycle ==
    /\ analysisState' = "predicting"
    /\ error' = ""
    /\ cycles' = Disturbed(cycles) (+) SetToBag(
           {Suspended(PredictCall(selectedImage, selectedCrop),
                      selectedCrop, selectedLanguage, NoPrediction, TRUE)})

handleAnalyze ==
    IF selectedImage = NoFile
    THEN /\ error' = NoImageError
         /\ intake' = NoIntake
         /\ utterance' = NoUtterance
         /\ UNCHANGED <<selectedCrop, selectedLanguage, selectedImage, analysisState,
                        disease, confidence, explanation, audioBase64,
                        uploadVars, cycleVars>>
    ELSE /\ started < MaxCycles
         /\ started' = started + 1
         /\ StartCycle
         /\ intake' = NoIntake
         /\ utterance' = NoUtterance
         /\ UNCHANGED <<selectedCrop, selectedLanguage, selectedImage,
                        disease, confidence, explanation, audioBase64, uploadVars>>

\* the user clicks the Analyze button, which must be enabled
ClickAnalyze ==
    /\ ~AnalyzeDisabled
    /\ handleAnalyze

\* mutant: the missing-label test is forgotten
PredictionFailed_SuccessOnly(r) == ~r.success

\* !predictionResult.success || !predictionResult.disease
PredictionFailed(r) == ~r.success \/ r.disease = ""

\* mutant: the default message is forgotten
ThrownMessage_NoDefault(r) == r.error

\* new Error(predictionResult.error || 'Failed to predict disease').message
ThrownMessage(r) == IF r.error # "" THEN r.error ELSE DefaultPredictError

\* predictionResult.confidence || 0
ConfidenceOrZero(r) == IF r.confidence \in {Undefined, 0} THEN 0 ELSE r.confidence

\* mutant: the success flag is not tested, any text returned is shown
ExplText_AnyText(r) ==
    IF r.explanation # "" THEN r.explanation ELSE FallbackExplanation

\* explanationResult.success && explanationResult.explanation ? ... : fallback
ExplText(r) ==
    IF r.success /\ r.explanation # "" THEN r.explanation ELSE FallbackExplanation

\* mutant: the else branch is forgotten, the audio of an earlier run stays
VoiceAudio_KeepsOld(r) ==
    IF r.success /\ r.audioBase64 # "" THEN r.audioBase64 ELSE audioBase64

\* voiceResult.success && voiceResult.audioBase64 ? audioBase64 : ''
VoiceAudio(r) == IF r.success /\ r.audioBase64 # "" THEN r.audioBase64 ELSE ""

\* the run c moves on to its next await, or ends (next = EmptyBag)
Resume(c, next) == cycles' = (cycles (-) SetToBag({c})) (+) next

\* mutant: the catch block forgets setAnalysisState('error')
Catch_NoState(c, message) ==
    /\ error' = message
    /\ analysisState' = analysisState
    /\ Resume(c, EmptyBag)

\* mutant: the catch block issues the failed call again
Catch_Retries(c, message) ==
    /\ error' = message
    /\ analysisState' = "error"
    /\ cycles' = cycles

\* lines 102-105, the catch block, which ends the run
Catch(c, message) ==
    /\ error' = message
    /\ analysisState' = "error"
    /\ Resume(c, EmptyBag)

\* mutant: the explanation is requested for the label in the state cell,
\* which the closure still sees as it was when the run began
AfterPredict_StateLabel(c, r) ==
    /\ disease' = r.disease
    /\ confidence' = ConfidenceOrZero(r)
    /\ analysisState' = "explaining"
    /\ Resume(c, SetToBag(
           {Suspended(ExplainCall(c.selectedCrop, disease, c.selectedLanguage),
                      "", c.selectedLanguage,
                      [disease |-> r.disease, confidence |-> ConfidenceOrZero(r)],
                      c.quiet)}))

\* mutant: the explanation is requested for the crop selected when the
\* classification returns
AfterPredict_CurrentCrop(c, r) ==
    /\ disease' = r.disease
    /\ confidence' = ConfidenceOrZero(r)
    /\ analysisState' = "explaining"
    /\ Resume(c, SetToBag(
           {Suspended(ExplainCall(selectedCrop, r.disease, c.selectedLanguage),
                      "", c.selectedLanguage,
                      [disease |-> r.disease, confidence |-> ConfidenceOrZero(r)],
                      c.quiet)}))

\* lines 72-81: the classification is stored and the explanation requested
AfterPredict(c, r) ==
    /\ disease' = r.disease
    /\ confidence' = ConfidenceOrZero(r)
    /\ analysisState' = "explaining"
    /\ Resume(c, SetToBag(
           {Suspended(ExplainCall(c.selectedCrop, r.disease, c.selectedLanguage),
                      "", c.selectedLanguage,
                      [disease |-> r.disease, confidence |-> ConfidenceOrZero(r)],
                      c.quiet)}))

\* handleAnalyze from the return of predictDisease to the second await
PredictResponse(c, r) ==
    /\ c.call.endpoint = "predictDisease"
    /\ intake' = NoIntake
    /\ utterance' = NoUtterance
    /\ IF PredictionFailed(r)
       THEN /\ Catch(c, ThrownMessage(r))
            /\ UNCHANGED <<disease, confidence>>
       ELSE /\ AfterPredict(c, r)
            /\ UNCHANGED error
    /\ UNCHANGED <<selectedCrop, selectedLanguage, selectedImage,
                   explanation, audioBase64, uploadVars, started>>

\* handleAnalyze from the return of getExplanation to the third await
ExplainResponse(c, r) ==
    /\ c.call.endpoint = "getExplanation"
    /\ intake' = NoIntake
    /\ utterance' = NoUtterance
    /\ explanation' = ExplText(r)
    /\ analysisState' = "generating-voice"
    /\ Resume(c, SetToBag(
           {Suspended(VoiceCall(ExplText(r), c.selectedLanguage), "", "",
                      c.predicted, c.quiet)}))
    /\ UNCHANGED <<selectedCrop, selectedLanguage, selectedImage,
                   disease, confidence, audioBase64, error, uploadVars, started>>

\* handleAnalyze from the return of generateVoice to its end
VoiceResponse(c, r) ==
    /\ c.call.endpoint = "generateVoice"
    /\ intake' = NoIntake
    /\ utterance' = NoUtterance
    /\ audioBase64' = VoiceAudio(r)
    /\ analysisState' = "complete"
    /\ Resume(c, EmptyBag)
    /\ UNCHANGED <<selectedCrop, selectedLanguage, selectedImage,
                   disease, confidence, explanation, error, uploadVars, started>>

\* err instanceof Error ? err.message : 'An error occurred during analysis'
CaughtMessage(e) ==
    IF e.isError THEN e.message ELSE "An error occurred during analysis"

\* the call a run awaits raises e: all three awaits are inside the try block,
\* so the catch block runs
Raises(c, e) ==
    /\ BagIn(c, cycles)
    /\ intake' = NoIntake
    /\ utterance' = NoUtterance
    /\ Catch(c, CaughtMessage(e))
    /\ UNCHANGED <<selectedCrop, selectedLanguage, selectedImage, disease,
                   confidence, explanation, audioBase64, uploadVars, started>>

\* ------------------------------------------------------------------ render
\* {error && (...)}
ErrorPanelShown == error # ""
\* {disease && (...)}, the card with the label, the crop and the language
DiseaseCardShown == disease # ""
\* {explanation && (...)}
ExplanationCardShown == explanation # ""
\* {audioBase64 && (<AudioPlayer .../>)}
AudioControlShown == audioBase64 # ""
\* {explanation && !audioBase64 && analysisState === 'complete' && (...)}
SpeechFallbackShown ==
    explanation # "" /\ audioBase64 = "" /\ analysisState = "complete"

\* mutant: the mapping is completed with a locale for every language
SpeechLocale_AllMapped(language) ==
    CASE language = "Hindi" -> "hi-IN"
      [] language = "English" -> "en-US"
      [] language = "Telugu" -> "te-IN"
      [] language = "Tamil" -> "ta-IN"
      [] language = "Bengali" -> "bn-IN"
      [] language = "Marathi" -> "mr-IN"
      [] OTHER -> "en-US"

\* langMap[selectedLanguage] || 'en-US', langMap = { Hindi, English }
SpeechLocale(language) ==
    CASE language = "Hindi" -> "hi-IN"
      [] language = "English" -> "en-US"
      [] OTHER -> "en-US"

\* onClick of the "Listen to Explanation" button, which is rendered with the
\* speech fallback
ListenToExplanation ==
    /\ SpeechFallbackShown
    /\ utterance' = Utterance(explanation, SpeechLocale(selectedLanguage))
    /\ intake' = NoIntake
    /\ UNCHANGED <<pageVars, uploadVars, cycleVars>>

\* ----------------------------------------------------------- specification
\* a file may be offered while it starts no reader beyond the bound
Offer(file, bound) == Validate(file) # "" \/ BagCardinality(readers) < bound

Next ==
    \/ \E file \in Files : Offer(file, MaxReaders) /\ handleFile(file)
    \/ \E file \in Files : onloadend(file)
    \/ handleClear
    \/ \E crop \in CropInputs : setSelectedCrop(crop)
    \/ \E language \in LanguageInputs : setSelectedLanguage(language)
    \/ ClickAnalyze
    \/ ListenToExplanation
    \/ \E c \in BagToSet(cycles), r \in PredictResults : PredictResponse(c, r)
    \/ \E c \in BagToSet(cycles), r \in ExplainResults : ExplainResponse(c, r)
    \/ \E c \in BagToSet(cycles), r \in VoiceResults : VoiceResponse(c, r)

Spec == Init /\ [][Next]_vars

\* Media Intake and the two selection panels, on every file of IntakeFiles,
\* every crop and every language, with several readers pending at once
NextIntake ==
    \/ \E file \in IntakeFiles :
          Offer(file, MaxIntakeReaders) /\ handleFile(file)
    \/ \E file \in IntakeFiles : onloadend(file)
    \/ handleClear
    \/ \E crop \in CROPS : setSelectedCrop(crop)
    \/ \E language \in LANGUAGES : setSelectedLanguage(language)

SpecIntake == Init /\ [][NextIntake]_vars

\* handleAnalyze called as a function, whatever the button shows, while no
\* image is selected (the branch the disabled button never reaches)
InvokeAnalyzeNoImage ==
    /\ selectedImage = NoFile
    /\ handleAnalyze

NextDirect == Next \/ InvokeAnalyzeNoImage

SpecDirect == Init /\ [][NextDirect]_vars

\* the call some run awaits settles: it returns a result or raises
Respond ==
    \E c \in BagToSet(cycles) :
        \/ \E r \in PredictResults : PredictResponse(c, r)
        \/ \E r \in ExplainResults : ExplainResponse(c, r)
        \/ \E r \in VoiceResults : VoiceResponse(c, r)
        \/ \E e \in Faults : Raises(c, e)

\* The page when an awaited gateway call may also raise, with the crop and
\* the language left as first selected (no guard reads them, they are only
\* copied into the calls)
NextFaults ==
    \/ \E file \in Files : Offer(file, MaxReaders) /\ handleFile(file)
    \/ \E file \in Files : onloadend(file)
    \/ handleClear
    \/ ClickAnalyze
    \/ Respond

SpecFaults == Init /\ [][NextFaults]_vars

\* the same, when every outstanding call eventually settles
SpecLive == Init /\ [][NextFaults]_vars /\ WF_vars(Respond)

\* The page in every language, with the crop left as first selected and the
\* language picked while no call is outstanding (the speech fallback reads
\* the language and the explanation only, and only once a run has completed)
NextSpeech ==
    \/ \E file \in Files : Offer(file, MaxReaders) /\ handleFile(file)
    \/ \E file \in Files : onloadend(file)
    \/ handleClear
    \/ \E language \in LANGUAGES :
          cycles = EmptyBag /\ setSelectedLanguage(language)
    \/ ClickAnalyze
    \/ ListenToExplanation
    \/ \E c \in BagToSet(cycles), r \in PredictResults : PredictResponse(c, r)
    \/ \E c \in BagToSet(cycles), r \in ExplainResults : ExplainResponse(c, r)
    \/ \E c \in BagToSet(cycles), r \in VoiceResults : VoiceResponse(c, r)

SpecSpeech == Init /\ [][NextSpeech]_vars

\* ------------------------------------------------------------------ claims
\* the outcomes of the gateway calls, as the claims name them
ClassifyFailed(r) == ~r.success \/ r.disease = ""
ExplainFailed(r) == ~r.success
VoiceFailed(r) == ~r.success \/ r.audioBase64 = ""
Runs == BagToSet(cycles)
Ended(c) == cycles' = cycles (-) SetToBag({c})

\* C1: a cycle whose classify call returns success=false, or success=true
\* with no disease label, ends at once in AnalysisState error: the run is
\* over, so it has issued and will issue no explain and no voice call.
C1_ClassifyFailureIsFatal ==
    [][\A c \in Runs, r \in PredictResults :
          (PredictResponse(c, r) /\ ClassifyFailed(r))
              => (analysisState' = "error" /\ Ended(c))]_vars

\* C1 witness: a cycle has ended in error on a classification that returned
\* no message, and nothing is left in flight
C1_Witness ==
    /\ analysisState = "error"
    /\ error = DefaultPredictError
    /\ started = 1
    /\ cycles = EmptyBag

\* C2: when explain returns success=false the cycle stores the fallback
\* text, issues exactly one voice call, with that same text, and moves to
\* generating-voice, not to error; the voice response then ends the cycle in
\* complete whatever it returns.
C2_ExplainFailureFallsBack ==
    [][/\ \A c \in Runs, r \in ExplainResults :
            (ExplainResponse(c, r) /\ ExplainFailed(r))
                => /\ explanation' = FallbackExplanation
                   /\ analysisState' = "generating-voice"
                   /\ \E v \in BagToSet(cycles') :
                         /\ v.call.endpoint = "generateVoice"
                         /\ v.call.text = FallbackExplanation
                         /\ cycles' = (cycles (-) SetToBag({c})) (+) SetToBag({v})
       /\ \A c \in Runs, r \in VoiceResults :
            VoiceResponse(c, r) => (analysisState' = "complete" /\ Ended(c))]_vars

\* C2 witness: the fallback text is stored and a voice call carrying it is
\* outstanding
C2_Witness ==
    /\ explanation = FallbackExplanation
    /\ analysisState = "generating-voice"
    /\ \E v \in Runs :
          v.call.endpoint = "generateVoice" /\ v.call.text = FallbackExplanation

\* C3: when the voice call returns success=false or no payload, the cycle
\* ends in complete with an empty audio payload, whatever audio an earlier
\* cycle had left in state.
C3_VoiceFailureCompletesSilent ==
    [][\A c \in Runs, r \in VoiceResults :
          (VoiceResponse(c, r) /\ VoiceFailed(r))
              => (analysisState' = "complete" /\ audioBase64' = "")]_vars

\* C3 witness: the second cycle has completed with the real explanation and
\* no audio
C3_Witness ==
    /\ analysisState = "complete"
    /\ audioBase64 = ""
    /\ explanation # ""
    /\ explanation # FallbackExplanation
    /\ started = 2
    /\ cycles = EmptyBag

\* C4, as claimed: when a cycle started from complete (an earlier cycle's
\* audio is still in state, this cycle is the only one in flight and has set
\* AnalysisState to predicting) fails its classification, the disease label,
\* the explanation and the audio payload are all empty once it is in error.
C4_Original ==
    [][\A c \in Runs, r \in PredictResults :
          (/\ PredictResponse(c, r)
           /\ ClassifyFailed(r)
           /\ BagCardinality(cycles) = 1
           /\ analysisState = "predicting"
           /\ audioBase64 # "")
              => (disease' = "" /\ explanation' = "" /\ audioBase64' = "")]_vars

\* C5, as claimed: at most one analysis cycle is in flight.
C5_Original == BagCardinality(cycles) <= 1

\* C6, as claimed: while no image is selected (the page is as a clear left
\* it, and the Analyze button cannot be pressed) AnalysisState is idle and
\* the disease label, the explanation and the audio are empty.
C6_Original ==
    selectedImage = NoFile
        => /\ analysisState = "idle"
           /\ disease = ""
           /\ explanation = ""
           /\ audioBase64 = ""

\* C7: handleFile forwards a file as the active image exactly when its type
\* starts with image/ and its size is at most 10,485,760 bytes.
C7_AcceptsIffImageWithinLimit ==
    intake # NoIntake
        => ((intake.alert = "" /\ selectedImage = intake.file /\ BagIn(intake.file, readers))
               <=> (StartsWith(intake.file.type, "image/") /\ intake.file.size <= 10485760))

\* C7 witness: an image of exactly 10,485,760 bytes has been accepted
C7_Witness ==
    /\ intake.file.size = 10485760
    /\ selectedImage = intake.file
    /\ intake.alert = ""

\* C8: a step in which handleFile refuses a file changes neither the active
\* image, the preview, AnalysisState, any result, the error message nor the
\* calls in flight.
C8_RejectionChangesNothing ==
    [][intake'.alert # ""
          => UNCHANGED <<selectedImage, preview, readers, analysisState, disease,
                         confidence, explanation, audioBase64, error, cycles>>]_vars

\* C8 witness: a file has just been refused while a cycle is in flight
C8_Witness ==
    /\ intake.alert # ""
    /\ analysisState = "predicting"
    /\ selectedImage # NoFile
    /\ cycles # EmptyBag

\* C9, as claimed: handleAnalyze invoked while no image is selected issues
\* no call, signals a validation error and leaves AnalysisState idle.
C9_Original ==
    [][(selectedImage = NoFile /\ handleAnalyze)
          => (cycles' = cycles /\ error' # "" /\ analysisState' = "idle")]_vars

\* C10: a cycle ended by a failed classification shows the message classify
\* returned, or 'Failed to predict disease' when it returned none; and in
\* AnalysisState error the message is never empty.
C10_ErrorMessageShown ==
    /\ [](analysisState = "error" => error # "")
    /\ [][\A c \in Runs, r \in PredictResults :
             (PredictResponse(c, r) /\ ClassifyFailed(r))
                 => error' = (IF r.error # "" THEN r.error
                              ELSE "Failed to predict disease")]_vars

\* C10 witness: a cycle has ended in error with the gateway's own message
C10_Witness ==
    /\ analysisState = "error"
    /\ error = "model unavailable"

\* the run v of cycles' is a run of cycles whose history flag the step reset
Flipped(v) ==
    /\ ~v.quiet
    /\ Copies([v EXCEPT !.quiet = TRUE], cycles) > Copies([v EXCEPT !.quiet = TRUE], cycles')
\* the runs whose calls the step issued: those cycles' has more of than
\* cycles, the history flag put aside
Issued == {v \in DOMAIN cycles' : cycles'[v] > Copies(v, cycles) /\ ~Flipped(v)}
\* the step replaces the awaited call of run c by the call of run v
Replaces(c, v) == cycles' = (cycles (-) SetToBag({c})) (+) SetToBag({v})
Stage(endpoint) ==
    CASE endpoint = "predictDisease" -> "predicting"
      [] endpoint = "getExplanation" -> "explaining"
      [] endpoint = "generateVoice" -> "generating-voice"
StageNo(endpoint) ==
    CASE endpoint = "predictDisease" -> 1
      [] endpoint = "getExplanation" -> 2
      [] endpoint = "generateVoice" -> 3

\* C11, as claimed: AnalysisState becomes error only when a classification
\* fails (or when an analysis is triggered with no image); whatever the
\* explain call or the voice call does, a raised fault included, the step
\* does not leave AnalysisState at error.
C11_Original ==
    [][/\ (analysisState # "error" /\ analysisState' = "error")
            => \/ \E c \in Runs :
                     /\ c.call.endpoint = "predictDisease"
                     /\ \/ \E r \in PredictResults :
                              PredictResponse(c, r) /\ ClassifyFailed(r)
                        \/ \E e \in Faults : Raises(c, e)
               \/ (selectedImage = NoFile /\ handleAnalyze)
       /\ \A c \in Runs :
            (/\ c.call.endpoint \in {"getExplanation", "generateVoice"}
             /\ \/ \E r \in ExplainResults : ExplainResponse(c, r)
                \/ \E r \in VoiceResults : VoiceResponse(c, r)
                \/ \E e \in Faults : Raises(c, e))
                => analysisState' # "error"]_vars

\* C12, as claimed: when the voice call of a run returns a payload a, the run
\* has stored the real explanation e of a successful explain call and the
\* label d and confidence of a successful classification, and the user did
\* nothing while the run was in flight, the page is left in complete with
\* disease d, that confidence, explanation e and audio a.
C12_Original ==
    [][\A c \in Runs, r \in VoiceResults :
          (/\ VoiceResponse(c, r)
           /\ c.quiet
           /\ r.success /\ r.audioBase64 # ""
           /\ c.call.text # FallbackExplanation)
              => /\ analysisState' = "complete"
                 /\ disease' = c.predicted.disease
                 /\ confidence' = c.predicted.confidence
                 /\ explanation' = c.call.text
                 /\ audioBase64' = r.audioBase64]_vars

\* C13: a run has one outstanding call at a time and issues its calls in
\* order.  An explain call is issued only by the step that receives a
\* successful classification of the same run, in place of the classify call
\* and with the label that classification returned; a voice call is issued
\* only by the step that receives the explanation of the same run, in place
\* of the explain call and with the text the step stores; and the calls
\* outstanding never outnumber the runs started.
C13_CallsAreSequential ==
    /\ [](BagCardinality(cycles) <= started)
    /\ [][\A v \in Issued :
             /\ v.call.endpoint = "getExplanation"
                  => \E c \in Runs, r \in PredictResults :
                        /\ PredictResponse(c, r)
                        /\ r.success /\ r.disease # ""
                        /\ v.call.disease = r.disease
                        /\ Replaces(c, v)
             /\ v.call.endpoint = "generateVoice"
                  => \E c \in Runs, r \in ExplainResults :
                        /\ ExplainResponse(c, r)
                        /\ v.call.text = explanation'
                        /\ v.call.text = (IF r.success /\ r.explanation # ""
                                          THEN r.explanation ELSE FallbackExplanation)
                        /\ Replaces(c, v)]_vars

\* C13 witness: a voice call carrying the real explanation the page shows is
\* outstanding, alone
C13_Witness ==
    /\ BagCardinality(cycles) = 1
    /\ \E v \in Runs :
          /\ v.call.endpoint = "generateVoice"
          /\ v.call.text = explanation
          /\ v.call.text # FallbackExplanation
          /\ v.predicted.disease = disease
          /\ disease # ""

\* C14: the step that issues a call leaves AnalysisState at the stage of that
\* call: predicting for classify, explaining for explain, generating-voice
\* for the voice call.
C14_StageShownBeforeCall ==
    [][\A v \in Issued : analysisState' = Stage(v.call.endpoint)]_vars

\* C14 witness: an explain call has been issued and the page shows explaining
C14_Witness ==
    /\ analysisState = "explaining"
    /\ \E v \in Runs : v.call.endpoint = "getExplanation" /\ v.call.disease = disease

\* C15, as claimed: explaining is entered only from predicting,
\* generating-voice only from explaining, complete only from
\* generating-voice.
C15_Original ==
    [][/\ (analysisState' = "explaining" /\ analysisState # "explaining")
            => analysisState = "predicting"
       /\ (analysisState' = "generating-voice" /\ analysisState # "generating-voice")
            => analysisState = "explaining"
       /\ (analysisState' = "complete" /\ analysisState # "complete")
            => analysisState = "generating-voice"]_vars

\* C16: when every outstanding call eventually returns or raises, the runs in
\* flight all end; the step that ends a run leaves AnalysisState at complete
\* or at error; and a raised fault always ends the run in the catch block,
\* with AnalysisState error.
C16_EveryCycleTerminates ==
    /\ (cycles # EmptyBag) ~> (cycles = EmptyBag)
    /\ [][/\ BagCardinality(cycles') < BagCardinality(cycles)
               => analysisState' \in {"complete", "error"}
          /\ \A c \in Runs, e \in Faults :
               Raises(c, e) => (Ended(c) /\ analysisState' = "error")]_vars

\* C16 witness: a run has ended in the catch block on a raised value that is
\* not an Error, and nothing is left in flight
C16_Witness ==
    /\ analysisState = "error"
    /\ error = "An error occurred during analysis"
    /\ started > 0
    /\ cycles = EmptyBag

\* C17: nothing is retried.  A call is added to those outstanding only by a
\* press of Analyze, which adds one classify call; the step that receives
\* what the call of a run returned or raised, whatever it is, either ends
\* the run or replaces that call by one call to the next endpoint.  So each
\* press causes at most one call to each endpoint.
C17_NothingIsRetried ==
    [][/\ BagCardinality(cycles') > BagCardinality(cycles)
            => /\ ClickAnalyze
               /\ started' = started + 1
               /\ BagCardinality(cycles') = BagCardinality(cycles) + 1
               /\ \A v \in Issued : v.call.endpoint = "predictDisease"
       /\ started' # started => Cardinality(Issued) = 1
       /\ \A c \in Runs :
            (\/ \E r \in PredictResults : PredictResponse(c, r)
             \/ \E r \in ExplainResults : ExplainResponse(c, r)
             \/ \E r \in VoiceResults : VoiceResponse(c, r)
             \/ \E e \in Faults : Raises(c, e))
                => \/ Ended(c)
                   \/ \E v \in Issued :
                         /\ Replaces(c, v)
                         /\ StageNo(v.call.endpoint) = StageNo(c.call.endpoint) + 1]_vars

\* C17 witness: after two presses of Analyze, the second ended by a failed
\* classification, nothing is left in flight
C17_Witness ==
    /\ started = 2
    /\ cycles = EmptyBag
    /\ analysisState = "error"
    /\ disease # ""

\* C18, as claimed: predicting is entered only from idle.
C18_Original ==
    [][(analysisState' = "predicting" /\ analysisState # "predicting")
          => analysisState = "idle"]_vars

\* C19, as claimed: the error panel is rendered exactly when AnalysisState is
\* error.
C19_Original == ErrorPanelShown <=> analysisState = "error"

\* C20, as claimed: in complete exactly one of the audio control and the
\* speech-fallback control is rendered.
C20_Original ==
    analysisState = "complete"
        => /\ AudioControlShown \/ SpeechFallbackShown
           /\ ~(AudioControlShown /\ SpeechFallbackShown)

\* what handleImageSelect and handleClearImage leave of an analysis
NothingShown ==
    /\ analysisState = "idle"
    /\ disease = ""
    /\ explanation = ""
    /\ audioBase64 = ""
    /\ error = ""
\* the step accepted a file / removed the image
Accepted == intake' # NoIntake /\ intake'.alert = ""
Removed == preview # NoPreview /\ preview' = NoPreview

\* C21: the step that accepts a file leaves that file as the active image,
\* the step that removes the image leaves no active image; both leave
\* AnalysisState idle and the label, the explanation, the audio and the error
\* empty, and neither changes the selected crop or language.
C21_SelectAndClearReset ==
    [][/\ Accepted => selectedImage' = intake'.file
       /\ Removed => selectedImage' = NoFile
       /\ (Accepted \/ Removed)
            => /\ NothingShown'
               /\ UNCHANGED <<selectedCrop, selectedLanguage>>]_vars

\* C21 witness: a file has just been accepted after an analysis that had
\* classified an image, with a crop and a language that are not the defaults
C21_Witness ==
    /\ intake # NoIntake /\ intake.alert = ""
    /\ selectedImage = intake.file
    /\ NothingShown
    /\ confidence = 87
    /\ selectedCrop = "Potato"
    /\ selectedLanguage = "Hindi"

\* C22: the utterance the speech fallback hands to the browser carries the
\* explanation shown and the locale of the language selected at the press:
\* hi-IN for Hindi, en-US for English, and en-US for each of Telugu, Tamil,
\* Bengali and Marathi.
C22_FallbackLocale ==
    utterance # NoUtterance
        => /\ utterance.text = explanation
           /\ selectedLanguage = "Hindi" => utterance.lang = "hi-IN"
           /\ selectedLanguage = "English" => utterance.lang = "en-US"
           /\ selectedLanguage \in {"Telugu", "Tamil", "Bengali", "Marathi"}
                => utterance.lang = "en-US"
           /\ utterance.lang \in {"hi-IN", "en-US"}

\* C22 witness: the fallback was pressed with Telugu selected, for an
\* explanation requested in another language
C22_Witness ==
    /\ utterance # NoUtterance
    /\ selectedLanguage = "Telugu"
    /\ utterance.lang = "en-US"
    /\ started = 1

\* C23: whenever AnalysisState is idle the label, the explanation and the
\* audio are empty, so neither card, no audio control and no speech fallback
\* is rendered.
C23_IdleShowsNoResult ==
    analysisState = "idle"
        => /\ disease = "" /\ explanation = "" /\ audioBase64 = ""
           /\ ~DiseaseCardShown /\ ~ExplanationCardShown
           /\ ~AudioControlShown /\ ~SpeechFallbackShown

\* C23 witness: the page is idle with a new image while the voice call of a
\* run started on an earlier image is still outstanding
C23_Witness ==
    /\ analysisState = "idle"
    /\ selectedImage # NoFile
    /\ \E c \in Runs : c.call.endpoint = "generateVoice" /\ ~c.quiet

\* C24, as claimed: whenever a label is displayed there is an active image,
\* and a step writes a label only as the return of a classify call made on
\* the image that is active.
C24_Original ==
    /\ [](disease # "" => selectedImage # NoFile)
    /\ [][(disease' # "" /\ disease' # disease)
             => \E c \in Runs :
                   /\ c.call.endpoint = "predictDisease"
                   /\ Copies(c, cycles') < Copies(c, cycles)
                   /\ c.call.image = selectedImage
                   /\ selectedImage # NoFile]_vars

\* C25: the arguments of the three calls of a run are those selected when the
\* run was triggered.  The classify call carries the image and the crop
\* selected at the trigger, and the run keeps that crop and that language;
\* the explain call that replaces it carries the crop of the classify call
\* and the language the run kept; the voice call that replaces the explain
\* call carries the language of the explain call.
C25_RequestTupleFixedAtTrigger ==
    [][\A v \in Issued :
          /\ v.call.endpoint = "predictDisease"
               => /\ v.call.image = selectedImage
                  /\ v.call.crop = selectedCrop
                  /\ v.selectedCrop = selectedCrop
                  /\ v.selectedLanguage = selectedLanguage
          /\ v.call.endpoint = "getExplanation"
               => \E c \in Runs :
                     /\ c.call.endpoint = "predictDisease"
                     /\ Replaces(c, v)
                     /\ v.call.crop = c.call.crop
                     /\ v.call.crop = c.selectedCrop
                     /\ v.call.language = c.selectedLanguage
                     /\ v.selectedLanguage = c.selectedLanguage
          /\ v.call.endpoint = "generateVoice"
               => \E c \in Runs :
                     /\ c.call.endpoint = "getExplanation"
                     /\ Replaces(c, v)
                     /\ v.call.language = c.call.language
                     /\ v.call.language = c.selectedLanguage]_vars

\* C25 witness: an explain call is outstanding for a crop and a language the
\* user has both changed since the run was triggered
C25_Witness ==
    \E c \in Runs :
        /\ c.call.endpoint = "getExplanation"
        /\ c.call.crop # selectedCrop
        /\ c.call.language # selectedLanguage

\* C26, as claimed: the crop and the language rendered beside a label are
\* those of the run that produced it.  The step that writes the label leaves
\* the crop and the language of that run's calls selected, and while a label
\* stays displayed the selected crop and language do not change.
C26_Original ==
    [][/\ \A c \in Runs :
            (/\ c.call.endpoint = "predictDisease"
             /\ Copies(c, cycles') < Copies(c, cycles)
             /\ disease' # "")
                => /\ selectedCrop' = c.call.crop
                   /\ selectedLanguage' = c.selectedLanguage
       /\ (DiseaseCardShown /\ DiseaseCardShown')
            => UNCHANGED <<selectedCrop, selectedLanguage>>]_vars

\* C27, as claimed: whenever a preview is displayed there is an active image
\* and the preview was read from it.
C27_Original ==
    preview # NoPreview
        => selectedImage # NoFile /\ preview = DataUrl(selectedImage)

====
